---- MODULE Spec2Model ----
(***************************************************************************)
(* pyextremes.plotting.return_values.plot_return_values and the style      *)
(* mapping pyextremes.plotting.style.pyextremes_rc.                        *)
(*                                                                         *)
(* One call of plot_return_values is a straight line of statements inside  *)
(* `with plt.rc_context(rc=pyextremes_rc)`.  Each statement is one action; *)
(* pc is the statement the call is at.  A statement whose argument lookup  *)
(* raises leaves the with-block at once (pc = "rc_exit" with exc set).     *)
(* Between calls the caller may create axes and change rcParams.           *)
(***************************************************************************)
EXTENDS Integers, Sequences, FiniteSets, TLC

\* ---------------------------------------------------------------- bounds
MaxFigures == 2
MaxCalls == 2

\* ------------------------------------------------------------ value sets
None == 0

Range(s) == {s[i] : i \in 1..Len(s)}

\* a table is its column names, in order, and its number of rows
NoTable == [columns |-> <<>>, nrows |-> 0]

\* observed tables the caller may pass: the extreme values first and the
\* return periods second (three rows, as in the documented scenario), the two
\* the other way round, the 'return period' column missing, no column at all
ObservedTables ==
    {[columns |-> <<"water level", "return period">>, nrows |-> 3],
     [columns |-> <<"return period", "water level">>, nrows |-> 1],
     [columns |-> <<"water level">>, nrows |-> 2],
     NoTable}

\* modeled tables the caller may pass: any subset of the three columns
ModeledColumns ==
    {<<>>, <<"return value">>, <<"lower ci">>, <<"upper ci">>,
     <<"return value", "lower ci">>, <<"return value", "upper ci">>,
     <<"lower ci", "upper ci">>, <<"return value", "lower ci", "upper ci">>}

ModeledTables == [columns : ModeledColumns, nrows : {2}]

\* the tables of the runs that vary the rendering defaults
StyleObservedTables ==
    {[columns |-> <<"water level", "return period">>, nrows |-> 3],
     [columns |-> <<"water level">>, nrows |-> 2]}

StyleModeledTables ==
    [columns : {<<"lower ci", "upper ci">>, <<"return value", "lower ci">>,
                <<"return value", "lower ci", "upper ci">>},
     nrows : {2}]

\* the modelled keys of rcParams: one that pyextremes_rc sets, one it does not
RcKeys == {"axes.grid", "lines.linewidth"}

RcValues(k) ==
    CASE k = "axes.grid" -> {FALSE, TRUE}
      [] k = "lines.linewidth" -> {1, 2}

\* matplotlib's defaults for the modelled keys
RcDefaults ==
    [k \in RcKeys |->
        CASE k = "axes.grid" -> FALSE
          [] k = "lines.linewidth" -> 1]

\* style.py: the entries of pyextremes_rc for the modelled keys
StyleMapping == [k \in {"axes.grid"} |-> TRUE]

NoExc == [type |-> "", key |-> ""]

KeyError(k) == [type |-> "KeyError", key |-> k]

IndexError == [type |-> "IndexError", key |-> ""]

NoResult == <<>>

\* t.loc[:, c] succeeds
HasColumn(t, c) == c \in Range(t.columns)

VARIABLES
    pc,             \* statement the call is at; "idle"/"done" between calls
    observed,       \* observed_return_values, the caller's table
    modeled,        \* modeled_return_values, the caller's table
    ax_arg,         \* the ax argument as passed (None or an axes)
    fig,            \* local fig
    ax,             \* local ax
    col_i,          \* position of the for loop over ['lower ci', 'upper ci']
    exc,            \* exception in flight
    result,         \* returned tuple
    outcome,        \* "none", "returned" or "raised"
    rcParams,       \* matplotlib.rcParams
    rc_orig,        \* rc_context's saved copy of rcParams
    pyextremes_rc,  \* the module-level style mapping
    figures,        \* pyplot's open figures
    axes,           \* state of the axes of each figure
    issued,         \* operations the call has issued on its axes, in order
    atCall,         \* rcParams, figures and the target's artists at call entry
    ncalls

vars == <<pc, observed, modeled, ax_arg, fig, ax, col_i, exc, result, outcome,
          rcParams, rc_orig, pyextremes_rc, figures, axes, issued, atCall, ncalls>>

locals == <<fig, ax, col_i>>
tables == <<observed, modeled>>
rcState == <<rcParams, rc_orig, pyextremes_rc>>

\* --------------------------------------------------------------- helpers
\* rcParams.update(rc)
RcUpdate(params, rc) ==
    [k \in DOMAIN params |-> IF k \in DOMAIN rc THEN rc[k] ELSE params[k]]

\* a new Axes takes its grid default from rcParams['axes.grid']
NewAxes(params) ==
    [xscale |-> "linear",
     grid |-> [on |-> params["axes.grid"], which |-> "major"],
     xformatter |-> "ScalarFormatter",
     artists |-> <<>>,
     xlabel |-> "",
     ylabel |-> ""]

\* plt.subplots(): one more figure holding one axes
NextFigure(figs) == Cardinality(figs) + 1

Op(name, arg) == [op |-> name, arg |-> arg]

Line(col, ls, lw, zorder, n) ==
    [kind |-> "line", data |-> col, ls |-> ls, lw |-> lw, zorder |-> zorder, n |-> n]

Band(zorder, n) ==
    [kind |-> "band", data |-> "ci", ls |-> "", lw |-> 0, zorder |-> zorder, n |-> n]

Markers(col, zorder, n) ==
    [kind |-> "markers", data |-> col, ls |-> "", lw |-> 1, zorder |-> zorder, n |-> n]

\* mutant: the loop runs over the bounds in the other order
CIColsReversed == <<"upper ci", "lower ci">>

\* mutant: the loop draws the lower bound only
CIColsLowerOnly == <<"lower ci">>

CICols == <<"lower ci", "upper ci">>

AddArtist(a, art) == [a EXCEPT !.artists = Append(@, art)]

\* the exception leaves the with-block: nothing else of the body runs
Raise(e) ==
    /\ exc' = e
    /\ pc' = "rc_exit"

NoSnapshot == [rcParams |-> RcDefaults, figures |-> {}, artists |-> <<>>]

\* ----------------------------------------------------------------- Init
Init ==
    /\ pc = "idle"
    /\ observed = NoTable
    /\ modeled = NoTable
    /\ ax_arg = None
    /\ fig = None
    /\ ax = None
    /\ col_i = 1
    /\ exc = NoExc
    /\ result = NoResult
    /\ outcome = "none"
    /\ rcParams = RcDefaults
    /\ rc_orig = RcDefaults
    /\ pyextremes_rc = StyleMapping
    /\ figures = {}
    /\ axes = <<>>
    /\ issued = <<>>
    /\ atCall = NoSnapshot
    /\ ncalls = 0

\* ------------------------------------------------------- caller, between calls
\* the call has exited: the caller takes what it got and moves on; the frame of
\* the call is gone and the two tables, transient by contract, are dropped
CallerContinues ==
    /\ pc = "done"
    /\ pc' = "idle"
    /\ observed' = NoTable
    /\ modeled' = NoTable
    /\ ax_arg' = None
    /\ fig' = None
    /\ ax' = None
    /\ col_i' = 1
    /\ exc' = NoExc
    /\ result' = NoResult
    /\ outcome' = "none"
    /\ issued' = <<>>
    /\ rc_orig' = RcDefaults
    /\ atCall' = NoSnapshot
    /\ UNCHANGED <<rcParams, pyextremes_rc, figures, axes, ncalls>>

\* the caller makes a figure and axes of its own, to pass as ax later
CallerSubplots ==
    /\ pc = "idle"
    /\ Cardinality(figures) < MaxFigures
    /\ LET f == NextFigure(figures) IN
        /\ figures' = figures \cup {f}
        /\ axes' = Append(axes, NewAxes(rcParams))
    /\ UNCHANGED <<pc, tables, ax_arg, locals, exc, result, outcome, rcState, issued,
                   atCall, ncalls>>

\* the caller sets one of the global rendering defaults
CallerSetRc(k, v) ==
    /\ pc = "idle"
    /\ rcParams[k] # v
    /\ rcParams' = [rcParams EXCEPT ![k] = v]
    /\ UNCHANGED <<pc, tables, ax_arg, locals, exc, result, outcome, rc_orig,
                   pyextremes_rc, figures, axes, issued, atCall, ncalls>>

\* ------------------------------------------------------ plot_return_values
\* the call: arguments bound, nothing executed yet
Call(o, m, a) ==
    /\ pc = "idle"
    /\ ncalls < MaxCalls
    /\ a = None => Cardinality(figures) < MaxFigures
    /\ observed' = o
    /\ modeled' = m
    /\ ax_arg' = a
    /\ ax' = a
    /\ fig' = None
    /\ col_i' = 1
    /\ exc' = NoExc
    /\ result' = NoResult
    /\ outcome' = "none"
    /\ issued' = <<>>
    /\ atCall' = [rcParams |-> rcParams, figures |-> figures,
                   artists |-> IF a = None THEN <<>> ELSE axes[a].artists]
    /\ ncalls' = ncalls + 1
    /\ pc' = "rc_enter"
    /\ UNCHANGED <<rcState, figures, axes>>

\* with plt.rc_context(rc=pyextremes_rc): save rcParams, then update them
RcEnter ==
    /\ pc = "rc_enter"
    /\ rc_orig' = rcParams
    /\ rcParams' = RcUpdate(rcParams, pyextremes_rc)
    /\ pc' = "select_axes"
    /\ UNCHANGED <<tables, ax_arg, locals, exc, result, outcome, pyextremes_rc,
                   figures, axes, issued, atCall, ncalls>>

\* mutant: a new figure and axes are made whether or not ax was passed
SelectAxesAlwaysNew ==
    /\ pc = "select_axes"
    /\ LET f == NextFigure(figures) IN
        /\ figures' = figures \cup {f}
        /\ axes' = Append(axes, NewAxes(rcParams))
        /\ fig' = f
        /\ ax' = f
    /\ pc' = "semilogx"
    /\ UNCHANGED <<tables, ax_arg, col_i, exc, result, outcome, rcState, issued,
                   atCall, ncalls>>

\* if ax is None: fig, ax = plt.subplots(...) else: fig = None
SelectAxes ==
    /\ pc = "select_axes"
    /\ IF ax = None
       THEN LET f == NextFigure(figures) IN
            /\ figures' = figures \cup {f}
            /\ axes' = Append(axes, NewAxes(rcParams))
            /\ fig' = f
            /\ ax' = f
       ELSE /\ fig' = None
            /\ UNCHANGED <<ax, figures, axes>>
    /\ pc' = "semilogx"
    /\ UNCHANGED <<tables, ax_arg, col_i, exc, result, outcome, rcState, issued,
                   atCall, ncalls>>

\* what every drawing statement leaves alone
DrawFrame ==
    UNCHANGED <<tables, ax_arg, fig, ax, result, outcome, rcState, figures,
                atCall, ncalls>>

\* ax.semilogx(): log scale, which installs the log scale's own formatter
Semilogx ==
    /\ pc = "semilogx"
    /\ axes' = [axes EXCEPT ![ax] =
                  [@ EXCEPT !.xscale = "log", !.xformatter = "LogFormatterSciNotation"]]
    /\ issued' = Append(issued, Op("semilogx", ""))
    /\ pc' = "grid"
    /\ UNCHANGED <<col_i, exc>>
    /\ DrawFrame

\* ax.grid(True, which='both')
Grid ==
    /\ pc = "grid"
    /\ axes' = [axes EXCEPT ![ax] = [@ EXCEPT !.grid = [on |-> TRUE, which |-> "both"]]]
    /\ issued' = Append(issued, Op("grid", "both"))
    /\ pc' = "set_major_formatter"
    /\ UNCHANGED <<col_i, exc>>
    /\ DrawFrame

\* ax.xaxis.set_major_formatter(FormatStrFormatter('%.0f'))
SetMajorFormatter ==
    /\ pc = "set_major_formatter"
    /\ axes' = [axes EXCEPT ![ax] = [@ EXCEPT !.xformatter = "%.0f"]]
    /\ issued' = Append(issued, Op("set_major_formatter", "%.0f"))
    /\ pc' = "plot_return_value"
    /\ UNCHANGED <<col_i, exc>>
    /\ DrawFrame

\* ax.plot(index, modeled.loc[:, 'return value'], lw=2, ls='-', zorder=20)
PlotReturnValue ==
    /\ pc = "plot_return_value"
    /\ IF HasColumn(modeled, "return value")
       THEN /\ axes' = [axes EXCEPT ![ax] =
                          AddArtist(@, Line("return value", "-", 2, 20, modeled.nrows))]
            /\ issued' = Append(issued, Op("plot", "return value"))
            /\ pc' = "plot_ci"
            /\ UNCHANGED exc
       ELSE /\ Raise(KeyError("return value"))
            /\ UNCHANGED <<axes, issued>>
    /\ UNCHANGED col_i
    /\ DrawFrame

\* mutant: a bound whose column is missing is skipped instead of looked up
PlotConfidenceSkipMissing ==
    /\ pc = "plot_ci"
    /\ IF col_i > Len(CICols)
       THEN /\ pc' = "fill_between"
            /\ UNCHANGED <<axes, issued, exc, col_i>>
       ELSE LET col == CICols[col_i] IN
            IF HasColumn(modeled, col)
            THEN /\ axes' = [axes EXCEPT ![ax] =
                               AddArtist(@, Line(col, "--", 1, 15, modeled.nrows))]
                 /\ issued' = Append(issued, Op("plot", col))
                 /\ col_i' = col_i + 1
                 /\ UNCHANGED <<pc, exc>>
            ELSE /\ col_i' = col_i + 1
                 /\ UNCHANGED <<axes, issued, pc, exc>>
    /\ DrawFrame

\* for col in ['lower ci', 'upper ci']:
\*     ax.plot(index, modeled.loc[:, col], lw=1, ls='--', zorder=15)
PlotConfidence ==
    /\ pc = "plot_ci"
    /\ IF col_i > Len(CICols)
       THEN /\ pc' = "fill_between"
            /\ UNCHANGED <<axes, issued, exc, col_i>>
       ELSE LET col == CICols[col_i] IN
            IF HasColumn(modeled, col)
            THEN /\ axes' = [axes EXCEPT ![ax] =
                               AddArtist(@, Line(col, "--", 1, 15, modeled.nrows))]
                 /\ issued' = Append(issued, Op("plot", col))
                 /\ col_i' = col_i + 1
                 /\ UNCHANGED <<pc, exc>>
            ELSE /\ Raise(KeyError(col))
                 /\ UNCHANGED <<axes, issued, col_i>>
    /\ DrawFrame

\* mutant: the band is given the stacking level of the central curve
FillBetweenOnTop ==
    /\ pc = "fill_between"
    /\ IF ~HasColumn(modeled, "lower ci")
       THEN /\ Raise(KeyError("lower ci"))
            /\ UNCHANGED <<axes, issued>>
       ELSE IF ~HasColumn(modeled, "upper ci")
       THEN /\ Raise(KeyError("upper ci"))
            /\ UNCHANGED <<axes, issued>>
       ELSE /\ axes' = [axes EXCEPT ![ax] = AddArtist(@, Band(20, modeled.nrows))]
            /\ issued' = Append(issued, Op("fill_between", "lower ci,upper ci"))
            /\ pc' = "scatter"
            /\ UNCHANGED exc
    /\ UNCHANGED col_i
    /\ DrawFrame

\* ax.fill_between(index, modeled.loc[:, 'lower ci'], modeled.loc[:, 'upper ci'],
\*                 alpha=0.25, zorder=10)
FillBetween ==
    /\ pc = "fill_between"
    /\ IF ~HasColumn(modeled, "lower ci")
       THEN /\ Raise(KeyError("lower ci"))
            /\ UNCHANGED <<axes, issued>>
       ELSE IF ~HasColumn(modeled, "upper ci")
       THEN /\ Raise(KeyError("upper ci"))
            /\ UNCHANGED <<axes, issued>>
       ELSE /\ axes' = [axes EXCEPT ![ax] = AddArtist(@, Band(10, modeled.nrows))]
            /\ issued' = Append(issued, Op("fill_between", "lower ci,upper ci"))
            /\ pc' = "scatter"
            /\ UNCHANGED exc
    /\ UNCHANGED col_i
    /\ DrawFrame

\* mutant: the return periods are taken out of the table with pop()
ScatterPopsColumn ==
    /\ pc = "scatter"
    /\ IF ~HasColumn(observed, "return period")
       THEN /\ Raise(KeyError("return period"))
            /\ UNCHANGED <<axes, issued, observed>>
       ELSE /\ axes' = [axes EXCEPT ![ax] =
                          AddArtist(@, Markers(observed.columns[1], 20, observed.nrows))]
            /\ issued' = Append(issued, Op("scatter", "return period"))
            /\ observed' = [observed EXCEPT !.columns =
                               SelectSeq(@, LAMBDA c : c # "return period")]
            /\ pc' = "set_xlabel"
            /\ UNCHANGED exc
    /\ UNCHANGED <<col_i, modeled, ax_arg, fig, ax, result, outcome, rcState, figures,
                   atCall, ncalls>>

\* ax.scatter(observed.loc[:, 'return period'],
\*            observed.loc[:, observed.columns[0]], s=20, lw=1, zorder=20)
Scatter ==
    /\ pc = "scatter"
    /\ IF ~HasColumn(observed, "return period")
       THEN /\ Raise(KeyError("return period"))
            /\ UNCHANGED <<axes, issued>>
       ELSE IF Len(observed.columns) = 0
       THEN /\ Raise(IndexError)
            /\ UNCHANGED <<axes, issued>>
       ELSE /\ axes' = [axes EXCEPT ![ax] =
                          AddArtist(@, Markers(observed.columns[1], 20, observed.nrows))]
            /\ issued' = Append(issued, Op("scatter", "return period"))
            /\ pc' = "set_xlabel"
            /\ UNCHANGED exc
    /\ UNCHANGED col_i
    /\ DrawFrame

\* ax.set_xlabel('Return period')
SetXLabel ==
    /\ pc = "set_xlabel"
    /\ axes' = [axes EXCEPT ![ax] = [@ EXCEPT !.xlabel = "Return period"]]
    /\ issued' = Append(issued, Op("set_xlabel", "Return period"))
    /\ pc' = "set_ylabel"
    /\ UNCHANGED <<col_i, exc>>
    /\ DrawFrame

\* mutant: the label is the name of the last column, columns[-1]
SetYLabelLastColumn ==
    /\ pc = "set_ylabel"
    /\ IF Len(observed.columns) = 0
       THEN /\ Raise(IndexError)
            /\ UNCHANGED <<axes, issued>>
       ELSE /\ axes' = [axes EXCEPT ![ax] =
                          [@ EXCEPT !.ylabel = observed.columns[Len(observed.columns)]]]
            /\ issued' = Append(issued, Op("set_ylabel", observed.columns[Len(observed.columns)]))
            /\ pc' = "return"
            /\ UNCHANGED exc
    /\ UNCHANGED col_i
    /\ DrawFrame

\* ax.set_ylabel(observed_return_values.columns[0])
SetYLabel ==
    /\ pc = "set_ylabel"
    /\ IF Len(observed.columns) = 0
       THEN /\ Raise(IndexError)
            /\ UNCHANGED <<axes, issued>>
       ELSE /\ axes' = [axes EXCEPT ![ax] = [@ EXCEPT !.ylabel = observed.columns[1]]]
            /\ issued' = Append(issued, Op("set_ylabel", observed.columns[1]))
            /\ pc' = "return"
            /\ UNCHANGED exc
    /\ UNCHANGED col_i
    /\ DrawFrame

\* return fig, ax
Return ==
    /\ pc = "return"
    /\ result' = <<fig, ax>>
    /\ pc' = "rc_exit"
    /\ UNCHANGED <<tables, ax_arg, locals, exc, outcome, rcState, figures, axes,
                   issued, atCall, ncalls>>

\* mutant: rcParams are restored after the body, with no finally around it
RcExitNoFinally ==
    /\ pc = "rc_exit"
    /\ rcParams' = IF exc = NoExc THEN rc_orig ELSE rcParams
    /\ outcome' = IF exc = NoExc THEN "returned" ELSE "raised"
    /\ pc' = "done"
    /\ UNCHANGED <<tables, ax_arg, locals, exc, result, rc_orig, pyextremes_rc,
                   figures, axes, issued, atCall, ncalls>>

\* mutant: the exception is caught on the way out and the call returns
RcExitSwallows ==
    /\ pc = "rc_exit"
    /\ rcParams' = rc_orig
    /\ outcome' = "returned"
    /\ pc' = "done"
    /\ UNCHANGED <<tables, ax_arg, locals, exc, result, rc_orig, pyextremes_rc,
                   figures, axes, issued, atCall, ncalls>>

\* mutant: a figure the failed call made is closed on the way out
RcExitClosesFigure ==
    /\ pc = "rc_exit"
    /\ rcParams' = rc_orig
    /\ outcome' = IF exc = NoExc THEN "returned" ELSE "raised"
    /\ figures' = IF exc # NoExc /\ fig # None THEN figures \ {fig} ELSE figures
    /\ pc' = "done"
    /\ UNCHANGED <<tables, ax_arg, locals, exc, result, rc_orig, pyextremes_rc,
                   axes, issued, atCall, ncalls>>

\* leaving the with-block, by return or by exception: rcParams restored from
\* the saved copy, the exception (if any) passed on to the caller
RcExit ==
    /\ pc = "rc_exit"
    /\ rcParams' = rc_orig
    /\ outcome' = IF exc = NoExc THEN "returned" ELSE "raised"
    /\ pc' = "done"
    /\ UNCHANGED <<tables, ax_arg, locals, exc, result, rc_orig, pyextremes_rc,
                   figures, axes, issued, atCall, ncalls>>

Next ==
    \/ CallerContinues
    \/ CallerSubplots
    \/ \E o \in ObservedTables, m \in ModeledTables, a \in {None} \cup figures :
          Call(o, m, a)
    \/ RcEnter
    \/ SelectAxes
    \/ Semilogx
    \/ Grid
    \/ SetMajorFormatter
    \/ PlotReturnValue
    \/ PlotConfidence
    \/ FillBetween
    \/ Scatter
    \/ SetXLabel
    \/ SetYLabel
    \/ Return
    \/ RcExit

Spec == Init /\ [][Next]_vars

\* the same program with a caller that also changes rcParams between calls
NextStyle ==
    \/ CallerContinues
    \/ CallerSubplots
    \/ \E k \in RcKeys : \E v \in RcValues(k) : CallerSetRc(k, v)
    \/ \E o \in StyleObservedTables, m \in StyleModeledTables, a \in {None} \cup figures :
          Call(o, m, a)
    \/ RcEnter
    \/ SelectAxes
    \/ Semilogx
    \/ Grid
    \/ SetMajorFormatter
    \/ PlotReturnValue
    \/ PlotConfidence
    \/ FillBetween
    \/ Scatter
    \/ SetXLabel
    \/ SetYLabel
    \/ Return
    \/ RcExit

SpecStyle == Init /\ [][NextStyle]_vars

\* ================================================================ claims
Exited == pc = "done"
Returned == Exited /\ outcome = "returned"
Raised == Exited /\ outcome = "raised"

InBody ==
    pc \in {"select_axes", "semilogx", "grid", "set_major_formatter",
            "plot_return_value", "plot_ci", "fill_between", "scatter",
            "set_xlabel", "set_ylabel", "return", "rc_exit"}

IsPrefix(s, t) == Len(s) <= Len(t) /\ s = SubSeq(t, 1, Len(s))

\* the required column the draw sequence looks up first among those missing
FirstMissing(o, m) ==
    IF "return value" \notin Range(m.columns) THEN "return value"
    ELSE IF "lower ci" \notin Range(m.columns) THEN "lower ci"
    ELSE IF "upper ci" \notin Range(m.columns) THEN "upper ci"
    ELSE IF "return period" \notin Range(o.columns) THEN "return period"
    ELSE ""

MissingColumn(o, m) == FirstMissing(o, m) # ""

\* the operations of a complete call, in the order the contract gives
DrawOrder(o) ==
    <<[op |-> "semilogx", arg |-> ""],
      [op |-> "grid", arg |-> "both"],
      [op |-> "set_major_formatter", arg |-> "%.0f"],
      [op |-> "plot", arg |-> "return value"],
      [op |-> "plot", arg |-> "lower ci"],
      [op |-> "plot", arg |-> "upper ci"],
      [op |-> "fill_between", arg |-> "lower ci,upper ci"],
      [op |-> "scatter", arg |-> "return period"],
      [op |-> "set_xlabel", arg |-> "Return period"],
      [op |-> "set_ylabel", arg |-> IF Len(o.columns) > 0 THEN o.columns[1] ELSE ""]>>

\* how many operations precede the one that looks up column c
StepsBefore(c) ==
    CASE c = "return value" -> 3
      [] c = "lower ci" -> 4
      [] c = "upper ci" -> 5
      [] c = "return period" -> 7

\* kind and line style of the artists of a complete call, in drawing order
ArtistShapes ==
    <<[kind |-> "line", ls |-> "-", data |-> "return value"],
      [kind |-> "line", ls |-> "--", data |-> "lower ci"],
      [kind |-> "line", ls |-> "--", data |-> "upper ci"],
      [kind |-> "band", ls |-> "", data |-> "ci"]>>

Shape(art) == [kind |-> art.kind, ls |-> art.ls, data |-> art.data]

Configured(a) ==
    /\ a.xscale = "log"
    /\ a.grid = [on |-> TRUE, which |-> "both"]
    /\ a.xformatter = "%.0f"

\* C1: a completed call returns (figure, axes) with the figure present exactly
\* when no axes was passed; a call that was passed an axes returns no figure,
\* creates no figure and returns the axes it was passed.
C1_FigureIffNoAxes ==
    Returned =>
        /\ Len(result) = 2
        /\ (result[1] # None) <=> (ax_arg = None)
        /\ ax_arg = None =>
              /\ result[1] \in figures \ atCall.figures
              /\ result[2] = result[1]
        /\ ax_arg # None =>
              /\ result[1] = None
              /\ figures = atCall.figures
              /\ result[2] = ax_arg

\* a second call in a row has returned from drawing on an axes passed to it
C1_Witness ==
    /\ Returned
    /\ ax_arg # None
    /\ ncalls = 2
    /\ Len(axes[ax_arg].artists) = 10

\* C2: inside the with-block rcParams are the caller's values overridden by
\* pyextremes_rc; once the call has exited, by return or by exception, they
\* are again what they were right before the call.
C2_RcRestoredOnExit ==
    /\ InBody /\ pc # "rc_exit" => rcParams = RcUpdate(atCall.rcParams, pyextremes_rc)
    /\ pc = "rc_exit" => rcParams = RcUpdate(atCall.rcParams, pyextremes_rc)
    /\ Exited => rcParams = atCall.rcParams

\* a failed call has exited where the caller's values were not the defaults and
\* differed from the style's
C2_Witness ==
    /\ Raised
    /\ ncalls = 2
    /\ atCall.rcParams["lines.linewidth"] = 2
    /\ atCall.rcParams["axes.grid"] = FALSE
    /\ rcParams = atCall.rcParams

\* C3 as stated: a call without axes and with a required column missing fails
\* before anything has been applied to the new axes.
C3_FailsBeforeAnyDrawing ==
    (Exited /\ ax_arg = None /\ MissingColumn(observed, modeled)) =>
        /\ outcome = "raised"
        /\ issued = <<>>
        /\ axes[ax].xscale = "linear"
        /\ axes[ax].grid.which = "major"
        /\ axes[ax].xformatter = "ScalarFormatter"
        /\ axes[ax].artists = <<>>
        /\ axes[ax].xlabel = ""
        /\ axes[ax].ylabel = ""

\* C3 amended: such a call fails with the KeyError of the first missing column
\* the draw sequence looks up; by then the new axes has log scaling, the grid
\* and the formatter, and the artists of the steps before the failing one; it
\* has no markers and no labels.
C3_FailsAtFirstLookup ==
    (Exited /\ ax_arg = None /\ MissingColumn(observed, modeled)) =>
        LET c == FirstMissing(observed, modeled)
            a == axes[ax]
        IN  /\ outcome = "raised"
            /\ exc = [type |-> "KeyError", key |-> c]
            /\ Configured(a)
            /\ Len(a.artists) = StepsBefore(c) - 3
            /\ \A i \in 1..Len(a.artists) : Shape(a.artists[i]) = ArtistShapes[i]
            /\ a.xlabel = ""
            /\ a.ylabel = ""

\* a call without axes failed on the 'return period' lookup, after the curves
\* and the band were drawn
C3_Witness ==
    /\ Raised
    /\ ax_arg = None
    /\ exc.key = "return period"
    /\ Len(axes[ax].artists) = 4

\* C4: after a completed call the y label is the name of the observed table's
\* first column and the x label is 'Return period'.
C4_Labels ==
    Returned =>
        /\ axes[result[2]].ylabel = observed.columns[1]
        /\ axes[result[2]].xlabel = "Return period"

\* a completed call relabelled an axes that an earlier completed call had
\* labelled 'water level'
C4_Witness ==
    /\ Returned
    /\ ax_arg # None
    /\ observed.columns[1] = "return period"
    /\ Len(axes[ax].artists) = 10
    /\ axes[ax].artists[5].data = "water level"
    /\ axes[ax].ylabel = "return period"

\* C5: what a call has issued on its axes is always an initial part of the one
\* fixed sequence, and all of it once the call has completed.
C5_FixedOrder ==
    /\ IsPrefix(issued, DrawOrder(observed))
    /\ Returned => issued = DrawOrder(observed)
    /\ pc \in {"rc_enter", "select_axes", "semilogx"} => issued = <<>>

\* a call has completed with all ten operations issued
C5_Witness ==
    /\ Returned
    /\ Len(issued) = 10
    /\ issued[10].arg = "water level"

\* C6: on the axes of a completed call the band is below the dashed curves,
\* and band and dashed curves are below the solid curve and the markers.
C6_ZOrder ==
    Returned =>
        \A i, j \in 1..Len(axes[ax].artists) :
            LET x == axes[ax].artists[i]
                y == axes[ax].artists[j]
                confidence(z) == z.kind = "band" \/ (z.kind = "line" /\ z.ls = "--")
                central(z) == z.kind = "markers" \/ (z.kind = "line" /\ z.ls = "-")
            IN  /\ (x.kind = "band" /\ y.kind = "line" /\ y.ls = "--") => x.zorder < y.zorder
                /\ (confidence(x) /\ central(y)) => x.zorder < y.zorder

\* a completed call on an axes that holds all five artists
C6_Witness ==
    /\ Returned
    /\ \E i, j, k \in 1..Len(axes[ax].artists) :
          /\ axes[ax].artists[i].kind = "band"
          /\ axes[ax].artists[j].kind = "markers"
          /\ axes[ax].artists[k].ls = "--"

\* C7: a call ends in one of two ways.  It returns (fig, ax) after the whole
\* sequence; or it raises the lookup error of the first failing step, with the
\* steps before it still applied to the axes and none after it issued.
C7_TwoOutcomes ==
    Exited =>
        \/ /\ outcome = "returned"
           /\ exc = NoExc
           /\ ~MissingColumn(observed, modeled)
           /\ result = <<fig, ax>>
           /\ issued = DrawOrder(observed)
        \/ /\ outcome = "raised"
           /\ result = NoResult
           /\ MissingColumn(observed, modeled)
           /\ LET c == FirstMissing(observed, modeled)
                  a == axes[ax]
                  k == StepsBefore(c) - 3
              IN  /\ exc = [type |-> "KeyError", key |-> c]
                  /\ issued = SubSeq(DrawOrder(observed), 1, StepsBefore(c))
                  /\ Configured(a)
                  /\ a.artists = atCall.artists \o SubSeq(a.artists, Len(atCall.artists) + 1, Len(a.artists))
                  /\ Len(a.artists) = Len(atCall.artists) + k
                  /\ \A i \in 1..k :
                        Shape(a.artists[Len(atCall.artists) + i]) = ArtistShapes[i]

\* a call failed in the middle of the sequence, on the 'upper ci' lookup, on an
\* axes that was passed in
C7_Witness ==
    /\ Raised
    /\ ax_arg # None
    /\ exc.key = "upper ci"
    /\ Len(issued) = 5

\* C8: no statement of the call changes the observed table, the modeled table
\* or pyextremes_rc, and nothing at all ever writes pyextremes_rc.
C8_InputsUntouched ==
    [][/\ pyextremes_rc' = pyextremes_rc
       /\ pc \notin {"idle", "done"} => (observed' = observed /\ modeled' = modeled)]_vars

\* a second call has exited, this one by exception, with a table in hand
C8_Witness ==
    /\ Raised
    /\ ncalls = 2
    /\ observed.nrows = 3
    /\ pyextremes_rc = StyleMapping

\* C9: a completed call leaves on its axes what was there before followed by
\* one solid line, the two dashed lines, one band and one marker collection
\* with a point per observed row.
C9_FiveArtistsPerCall ==
    Returned =>
        LET a == axes[ax].artists
            n == Len(atCall.artists)
        IN  /\ Len(a) = n + 5
            /\ SubSeq(a, 1, n) = atCall.artists
            /\ \A i \in 1..4 : Shape(a[n + i]) = ArtistShapes[i]
            /\ a[n + 5].kind = "markers"
            /\ a[n + 5].n = observed.nrows

\* two completed calls on the same axes: ten artists, two marker collections
\* of different sizes
C9_Witness ==
    /\ Returned
    /\ ax_arg # None
    /\ Len(axes[ax].artists) = 10
    /\ axes[ax].artists[5].n = 3
    /\ axes[ax].artists[10].n = 1

\* C10: without an axes argument the figure exists before the first column
\* lookup; a call that then fails has added exactly that one figure, returns
\* nothing, and the figure stays open.
C10_FigureCreatedBeforeLookup ==
    /\ (pc = "plot_return_value" /\ ax_arg = None) =>
          /\ fig \notin atCall.figures
          /\ figures = atCall.figures \cup {fig}
    /\ (Raised /\ ax_arg = None) =>
          /\ fig \notin atCall.figures
          /\ figures = atCall.figures \cup {fig}
          /\ result = NoResult

\* a call without axes failed on its first lookup, leaving the new figure open
C10_Witness ==
    /\ Raised
    /\ ax_arg = None
    /\ exc.key = "return value"
    /\ fig \in figures
    /\ Cardinality(figures) = Cardinality(atCall.figures) + 1

====
